---- MODULE Spec2Model ----
(***************************************************************************)
(* Model of configReader.C: rendering of libconfig settings as text, the   *)
(* lookup of a setting by dotted path or alias, and the run entry points.  *)
(*                                                                         *)
(* A C++ string is a sequence of tokens.  A token is one character of      *)
(* punctuation, one decimal digit, or a whole word that contains no '.'    *)
(* (a setting name, a fixed piece of a message).  Concatenation is \o.     *)
(* A float value is held as a count of halves (ival = 3 is 1.5), so every  *)
(* float of the model is exactly representable.                            *)
(***************************************************************************)
EXTENDS Integers, Sequences, FiniteSets, TLC

VARIABLES config, fs, last

vars == <<config, fs, last>>

\* Largest number of elements of an array, a list or a group.
MaxLen == 3

(***************************************************************************)
(* libconfig settings                                                      *)
(***************************************************************************)
Setting(name, type, ival, sval, kids) ==
    [name |-> name, type |-> type, ival |-> ival, sval |-> sval, kids |-> kids]

IntS(name, n)     == Setting(name, "TypeInt", n, <<>>, <<>>)
Int64S(name, n)   == Setting(name, "TypeInt64", n, <<>>, <<>>)
FloatS(name, h)   == Setting(name, "TypeFloat", h, <<>>, <<>>)
BoolS(name, b)    == Setting(name, "TypeBoolean", IF b THEN 1 ELSE 0, <<>>, <<>>)
StringS(name, s)  == Setting(name, "TypeString", 0, s, <<>>)
ArrayS(name, ks)  == Setting(name, "TypeArray", 0, <<>>, ks)
ListS(name, ks)   == Setting(name, "TypeList", 0, <<>>, ks)
GroupS(name, ks)  == Setting(name, "TypeGroup", 0, <<>>, ks)
NoSetting         == Setting("", "TypeNone", 0, <<>>, <<>>)

getType(setting)   == setting.type
getLength(setting) == Len(setting.kids)
getName(setting)   == setting.name

(***************************************************************************)
(* std::to_string and operator<< of the standard library                   *)
(***************************************************************************)
DigitChar(d) == <<"0", "1", "2", "3", "4", "5", "6", "7", "8", "9">>[d + 1]

RECURSIVE Digits(_)
Digits(n) == IF n < 10 THEN <<DigitChar(n)>>
             ELSE Digits(n \div 10) \o <<DigitChar(n % 10)>>

\* std::to_string(int): sign, then the decimal digits without leading zeros.
to_string_int(n) == IF n < 0 THEN <<"-">> \o Digits(-n) ELSE Digits(n)

\* std::to_string(bool): the bool is promoted to int.
to_string_bool(b) == to_string_int(b)

\* std::to_string(float): "%f", six digits after the point.
to_string_float(h) ==
    LET a == IF h < 0 THEN -h ELSE h
    IN  (IF h < 0 THEN <<"-">> ELSE <<>>) \o Digits(a \div 2) \o <<".">>
        \o (IF a % 2 = 1 THEN <<"5">> ELSE <<"0">>) \o <<"0", "0", "0", "0", "0">>

\* ss << int
stream_int(n) == to_string_int(n)

\* ss << float: "%g", trailing zeros and a trailing point are dropped.
stream_float(h) ==
    LET a == IF h < 0 THEN -h ELSE h
    IN  (IF h < 0 THEN <<"-">> ELSE <<>>) \o Digits(a \div 2)
        \o (IF a % 2 = 1 THEN <<".", "5">> ELSE <<>>)

(***************************************************************************)
(* settingValueToString                                                    *)
(***************************************************************************)
\* The two ifs that fill the stringstream for one element.
ElemStream(subsetting) ==
    (IF getType(subsetting) = "TypeInt" THEN stream_int(subsetting.ival) ELSE <<>>)
    \o (IF getType(subsetting) = "TypeFloat" THEN stream_float(subsetting.ival) ELSE <<>>)

\* What one pass of the array loop appends to value.
ArrayPiece(i, length, ss) ==
    IF i = 0 THEN <<"[">> \o ss
    ELSE IF i = length - 1 THEN <<",">> \o ss \o <<"]">>
    ELSE <<",">> \o ss

ListPieceDropsEmpty(i, length, ss) ==
    IF i = 0 THEN <<"(">> \o ss
    ELSE IF i = length - 1 THEN (IF ss = <<>> THEN <<>> ELSE <<",">>) \o ss \o <<")">>
    ELSE (IF ss = <<>> THEN <<>> ELSE <<",">>) \o ss

\* What one pass of the list loop appends to value.
ListPiece(i, length, ss) ==
    IF i = 0 THEN <<"(">> \o ss
    ELSE IF i = length - 1 THEN <<",">> \o ss \o <<")">>
    ELSE <<",">> \o ss

RECURSIVE ArrayLoop(_, _, _)
ArrayLoop(setting, i, value) ==
    IF ~(i < getLength(setting)) THEN value
    ELSE ArrayLoop(setting, i + 1,
             value \o ArrayPiece(i, getLength(setting), ElemStream(setting.kids[i + 1])))

RECURSIVE ListLoop(_, _, _)
ListLoop(setting, i, value) ==
    IF ~(i < getLength(setting)) THEN value
    ELSE ListLoop(setting, i + 1,
             value \o ListPiece(i, getLength(setting), ElemStream(setting.kids[i + 1])))

settingValueToString(setting) ==
    IF getType(setting) = "TypeInt" THEN to_string_int(setting.ival)
    ELSE IF getType(setting) = "TypeString" THEN setting.sval
    ELSE IF getType(setting) = "TypeBoolean" THEN to_string_bool(setting.ival)
    ELSE IF getType(setting) = "TypeFloat" THEN to_string_float(setting.ival)
    ELSE IF getType(setting) = "TypeArray" THEN ArrayLoop(setting, 0, <<>>)
    ELSE IF getType(setting) = "TypeList" THEN ListLoop(setting, 0, <<>>)
    ELSE <<>>

(***************************************************************************)
(* libconfig::Config::lookup and the exceptions of libconfig               *)
(***************************************************************************)
\* The components of a dotted path: the tokens between the '.' tokens.
RECURSIVE SplitPath(_, _, _)
SplitPath(path, i, cur) ==
    IF i > Len(path) THEN <<cur>>
    ELSE IF path[i] = "." THEN <<cur>> \o SplitPath(path, i + 1, <<>>)
    ELSE SplitPath(path, i + 1, Append(cur, path[i]))

HasMember(setting, comp) ==
    /\ getType(setting) = "TypeGroup"
    /\ Len(comp) = 1
    /\ \E k \in 1..getLength(setting) : getName(setting.kids[k]) = comp[1]

getMember(setting, comp) ==
    setting.kids[CHOOSE k \in 1..getLength(setting) : getName(setting.kids[k]) = comp[1]]

RECURSIVE Descend(_, _, _)
Descend(setting, comps, i) ==
    IF i > Len(comps) THEN [thrown |-> "none", setting |-> setting]
    ELSE IF ~HasMember(setting, comps[i])
         THEN [thrown |-> "SettingNotFoundException", setting |-> NoSetting]
    ELSE Descend(getMember(setting, comps[i]), comps, i + 1)

\* config.lookup(path): the setting at the path, or SettingNotFoundException.
lookup(cfg, path) == Descend(cfg, SplitPath(path, 1, <<>>), 1)

\* The classes a catch clause for `handler` catches.
CaughtBy(handler) ==
    IF handler = "SettingException"
    THEN {"SettingException", "SettingNotFoundException", "SettingTypeException",
          "SettingNameException"}
    ELSE {handler}

(***************************************************************************)
(* getSettingValue                                                         *)
(***************************************************************************)
\* The result of a call: the returned string, the lines written to
\* std::cout, the paths handed to config.lookup, and the exception that
\* left the call ("none" when it returned normally).
Result(ret, out, lookups, exc) ==
    [ret |-> ret, out |-> out, lookups |-> lookups, exc |-> exc]

\* What one pass of the group loop appends to value.
GroupPiece(i, length, subsettingName, subsettingValue) ==
    IF i = 0 THEN <<"{", "\n", subsettingName, " = ">> \o subsettingValue
    ELSE IF i = length - 1
         THEN <<",", " ", "\n", subsettingName, " = ">> \o subsettingValue \o <<"\n", "}">>
    ELSE <<",", " ", "\n", subsettingName, " = ">> \o subsettingValue

RECURSIVE GroupLoop(_, _, _)
GroupLoop(setting, i, value) ==
    IF ~(i < getLength(setting)) THEN value
    ELSE LET subsetting == setting.kids[i + 1]
         IN  GroupLoop(setting, i + 1,
                 value \o GroupPiece(i, getLength(setting), getName(subsetting),
                                     settingValueToString(subsetting)))

LookupHandlerNarrow == "SettingTypeException"

\* The class named by the catch clause of getSettingValue.
LookupHandler == "SettingException"

\* The line the catch clause writes.
LookupDiagnostic(what, path) == <<"Error: ", what, ": ">> \o path

getSettingValue(cfg, path) ==
    LET found == lookup(cfg, path)
    IN  IF found.thrown # "none"
        THEN IF found.thrown \in CaughtBy(LookupHandler)
             THEN Result(<<>>, <<LookupDiagnostic(found.thrown, path)>>, <<path>>, "none")
             ELSE Result(<<>>, <<>>, <<path>>, found.thrown)
        ELSE IF getType(found.setting) # "TypeGroup"
             THEN Result(settingValueToString(found.setting), <<>>, <<path>>, "none")
        ELSE Result(GroupLoop(found.setting, 0, <<>>), <<>>, <<path>>, "none")

(***************************************************************************)
(* getCommonSettingValue                                                   *)
(***************************************************************************)
\* alias.find(".") != std::string::npos
HasDot(alias) == \E i \in 1..Len(alias) : alias[i] = "."

commonSettingsSwapped ==
    (<<"rf0_enabled">> :> <<"radiant", ".", "trigger", ".", "RF1", ".", "enabled">>)
    @@ (<<"rf1_enabled">> :> <<"radiant", ".", "trigger", ".", "RF0", ".", "enabled">>)
    @@ (<<"scalers_use_pps">> :> <<"radiant", ".", "scalers", ".", "period">>)

commonSettings ==
    (<<"rf0_enabled">> :> <<"radiant", ".", "trigger", ".", "RF0", ".", "enabled">>)
    @@ (<<"rf1_enabled">> :> <<"radiant", ".", "trigger", ".", "RF1", ".", "enabled">>)
    @@ (<<"scalers_use_pps">> :> <<"radiant", ".", "scalers", ".", "use_pps">>)

UnknownAliasFallsThrough(cfg, alias) == getSettingValue(cfg, alias)

\* The else branch: the alias is not a key of the table.
UnknownAlias(cfg, alias) ==
    Result(<<>>, <<<<"Error: Unknown common setting alias: ">> \o alias>>, <<>>, "none")

getCommonSettingValue(cfg, alias) ==
    IF HasDot(alias) THEN getSettingValue(cfg, alias)
    ELSE IF alias \in DOMAIN commonSettings
         THEN getSettingValue(cfg, commonSettings[alias])
    ELSE UnknownAlias(cfg, alias)

(***************************************************************************)
(* readConfigFile and configReader                                         *)
(***************************************************************************)
\* The path of the file after chdir("/"): a relative path is taken from "/".
Absolute(filepath) ==
    IF Len(filepath) > 0 /\ filepath[1] = "/" THEN filepath ELSE <<"/">> \o filepath

ConfigFilepath(station, run, directory) ==
    directory \o <<"/station">> \o to_string_int(station) \o <<"/run">>
    \o to_string_int(run) \o <<"/cfg/">> \o <<"acq.cfg">>

\* cfg.readFile: what the file system holds at the path.
readFile(files, filepath) ==
    IF Absolute(filepath) \in DOMAIN files THEN files[Absolute(filepath)] ELSE "missing"

ResultLine(configSettingPath, value_f) == configSettingPath \o <<" : ">> \o value_f

LookupAfterReadFailure(files, cfg, filepath, configSettingPath) ==
    LET r == getCommonSettingValue(cfg, configSettingPath)
    IN  IF r.exc # "none" THEN r
        ELSE Result(<<>>, r.out \o <<ResultLine(configSettingPath, r.ret)>>, r.lookups, "none")

\* The statements of readConfigFile after the file path is built.
ReadAndPrint(files, cfg, filepath, configSettingPath) ==
    IF readFile(files, filepath) = "missing"
    THEN Result(<<>>, <<<<"Error: I/O error while reading file.">>>>, <<>>, "none")
    ELSE IF readFile(files, filepath) = "malformed"
    THEN Result(<<>>, <<<<"Error: Parse error at ">> \o filepath \o <<":">>
                        \o to_string_int(1) \o <<" - ", "syntax error">>>>, <<>>, "none")
    ELSE LET r == getCommonSettingValue(cfg, configSettingPath)
         IN  IF r.exc # "none" THEN r
             ELSE Result(<<>>, r.out \o <<ResultLine(configSettingPath, r.ret)>>,
                         r.lookups, "none")

readConfigFile(files, cfg, station, run, directory, configSettingPath) ==
    ReadAndPrint(files, cfg, ConfigFilepath(station, run, directory), configSettingPath)

configReaderUsesAlias(files, cfg, station, run, directory, setting_path_alias) ==
    readConfigFile(files, cfg, station, run, directory, setting_path_alias)

configReader(files, cfg, station, run, directory, setting_path_alias) ==
    readConfigFile(files, cfg, station, run, directory,
                   <<"radiant", ".", "scalers", ".", "period">>)

(***************************************************************************)
(* The settings, configurations, paths and files of the model              *)
(***************************************************************************)
SeqsUpTo(S, n) == UNION {[1..k -> S] : k \in 0..n}

\* The name of the k-th member of a group.
MemberNames == <<"a", "b", "c", "d", "e", "f", "g", "h">>

Named(setting, name) == [setting EXCEPT !.name = name]

NameMembers(ks) == [k \in 1..Len(ks) |-> Named(ks[k], MemberNames[k])]

Scalars ==
    {IntS("", 0), IntS("", -7), IntS("", 305), Int64S("", 12), FloatS("", 3),
     FloatS("", -1), FloatS("", 4), BoolS("", TRUE), BoolS("", FALSE),
     StringS("", <<"hello", " ", "world">>), StringS("", <<>>)}

Arrays ==
    {ArrayS("", ks) : ks \in SeqsUpTo({IntS("", -7), IntS("", 305)}, MaxLen)}
    \cup {ArrayS("", ks) : ks \in SeqsUpTo({FloatS("", 3)}, MaxLen)}
    \cup {ArrayS("", ks) : ks \in SeqsUpTo({StringS("", <<"x">>)}, MaxLen)}

ListElems ==
    {IntS("", 12), FloatS("", 3), BoolS("", TRUE), StringS("", <<"on">>),
     ListS("", <<IntS("", 12)>>), GroupS("", <<IntS("a", 1)>>)}

Lists == {ListS("", ks) : ks \in SeqsUpTo(ListElems, MaxLen)}

GroupMembers ==
    {IntS("", 1), BoolS("", FALSE), StringS("", <<"hello", " ", "world">>),
     ArrayS("", <<IntS("", 12), IntS("", 305)>>),
     GroupS("", <<IntS("a", 1), IntS("b", 2)>>)}

Groups == {GroupS("", NameMembers(ks)) : ks \in SeqsUpTo(GroupMembers, MaxLen)}

\* A configuration file of an acquisition run: the radiant group, one further
\* setting aux, and optionally a top-level setting named bogus.
Root(aux, hasPeriod, hasBogus) ==
    GroupS("", <<
        GroupS("radiant", <<
            GroupS("scalers",
                   <<BoolS("use_pps", TRUE)>>
                   \o (IF hasPeriod THEN <<FloatS("period", 2)>> ELSE <<>>)),
            GroupS("trigger", <<
                GroupS("RF0", <<BoolS("enabled", TRUE)>>),
                GroupS("RF1", <<BoolS("enabled", FALSE)>>)>>)>>),
        Named(aux, "aux")>>
        \o (IF hasBogus THEN <<IntS("bogus", 5)>> ELSE <<>>))

PeriodPath == <<"radiant", ".", "scalers", ".", "period">>

Paths ==
    {<<"radiant", ".", "scalers", ".", "use_pps">>, PeriodPath,
     <<"radiant", ".", "trigger", ".", "RF0", ".", "enabled">>,
     <<"radiant", ".", "trigger", ".", "RF1", ".", "enabled">>,
     <<"radiant", ".", "scalers">>, <<"radiant", ".", "missing">>,
     <<"radiant", ".">>, <<"aux", ".", "a">>, <<"aux", ".", "b", ".", "a">>,
     <<"radiant">>, <<"aux">>, <<"bogus">>, <<"nonexistent_alias">>,
     <<"rf0_enabled">>, <<"rf1_enabled">>, <<"scalers_use_pps">>}

DefaultDirectory == <<"data/handcarry22/rootified">>

Directories == {DefaultDirectory, <<"/", "mnt/rno-g">>}
Stations == {23}
Runs == {327}

FilePaths ==
    {Absolute(ConfigFilepath(s, r, d)) : s \in Stations, r \in Runs, d \in Directories}

(***************************************************************************)
(* State: the configuration the file holds (and the Config object parsed   *)
(* from it), the files on disk, and the last call with what it did.        *)
(***************************************************************************)
Call(fn, setting, station, run, directory, path, r) ==
    [fn |-> fn, setting |-> setting, station |-> station, run |-> run,
     directory |-> directory, path |-> path,
     ret |-> r.ret, out |-> r.out, lookups |-> r.lookups, exc |-> r.exc]

NoCall == Call("none", NoSetting, 0, 0, <<>>, <<>>, Result(<<>>, <<>>, <<>>, "none"))

CallSettingValueToString ==
    \E p \in Paths :
        /\ lookup(config, p).thrown = "none"
        /\ last' = Call("settingValueToString", lookup(config, p).setting, 0, 0, <<>>, p,
                        Result(settingValueToString(lookup(config, p).setting),
                               <<>>, <<>>, "none"))
        /\ UNCHANGED <<config, fs>>

CallGetSettingValue ==
    \E p \in Paths :
        /\ last' = Call("getSettingValue", NoSetting, 0, 0, <<>>, p,
                        getSettingValue(config, p))
        /\ UNCHANGED <<config, fs>>

CallGetCommonSettingValue ==
    \E a \in Paths :
        /\ last' = Call("getCommonSettingValue", NoSetting, 0, 0, <<>>, a,
                        getCommonSettingValue(config, a))
        /\ UNCHANGED <<config, fs>>

CallReadConfigFile ==
    \E s \in Stations, r \in Runs, d \in Directories, p \in Paths :
        /\ last' = Call("readConfigFile", NoSetting, s, r, d, p,
                        readConfigFile(fs, config, s, r, d, p))
        /\ UNCHANGED <<config, fs>>

CallConfigReader ==
    \E s \in Stations, r \in Runs, d \in Directories, a \in Paths :
        /\ last' = Call("configReader", NoSetting, s, r, d, a,
                        configReader(fs, config, s, r, d, a))
        /\ UNCHANGED <<config, fs>>

NoFiles == [f \in FilePaths |-> "missing"]

\* Rendering: any setting of any composite shape.
InitRender ==
    /\ config \in {Root(aux, TRUE, FALSE) : aux \in Scalars \cup Arrays \cup Lists \cup Groups}
    /\ fs = NoFiles
    /\ last = NoCall

NextRender == CallSettingValueToString

SpecRender == InitRender /\ [][NextRender]_vars

\* Lookup by path and by alias on a parsed configuration.
InitResolve ==
    /\ config \in {Root(aux, TRUE, b) : aux \in Groups \cup {IntS("", 305)}, b \in BOOLEAN}
    /\ fs = NoFiles
    /\ last = NoCall

NextResolve == CallGetSettingValue \/ CallGetCommonSettingValue

SpecResolve == InitResolve /\ [][NextResolve]_vars

\* The run entry points: the file may be absent, malformed or readable.
InitRun ==
    /\ config \in {Root(aux, p, b) : aux \in {g \in Groups : getLength(g) <= 1},
                                    p \in BOOLEAN, b \in BOOLEAN}
    /\ fs \in [FilePaths -> {"ok", "missing", "malformed"}]
    /\ last = NoCall

NextRun == CallReadConfigFile \/ CallConfigReader

SpecRun == InitRun /\ [][NextRun]_vars

(***************************************************************************)
(* Properties                                                              *)
(***************************************************************************)
RECURSIVE Join(_, _)
Join(strs, sep) ==
    IF Len(strs) = 0 THEN <<>>
    ELSE IF Len(strs) = 1 THEN strs[1]
    ELSE strs[1] \o sep \o Join(Tail(strs), sep)

RECURSIVE Count(_, _)
Count(str, tok) ==
    IF Len(str) = 0 THEN 0
    ELSE (IF str[1] = tok THEN 1 ELSE 0) + Count(Tail(str), tok)

Contains(line, str) ==
    \E i \in 1..(Len(line) - Len(str) + 1) : SubSeq(line, i, i + Len(str) - 1) = str

AllOfType(setting, types) ==
    \A k \in 1..getLength(setting) : getType(setting.kids[k]) \in types

IsDiagnostic(line) == Len(line) > 0 /\ line[1] \in
    {"Error: ", "Error: I/O error while reading file.", "Error: Parse error at ",
     "Error: Unknown common setting alias: "}

Rendered(type) == last.fn = "settingValueToString" /\ getType(last.setting) = type

\* C1: an array of n >= 1 integers renders as "[" v0 "," ... "," vn-1 "]",
\* closing bracket included, for every n >= 1.
C1_ArrayBracketed ==
    (Rendered("TypeArray") /\ getLength(last.setting) >= 1
        /\ AllOfType(last.setting, {"TypeInt"}))
    => last.ret = <<"[">>
                  \o Join([k \in 1..getLength(last.setting) |->
                               to_string_int(last.setting.kids[k].ival)], <<",">>)
                  \o <<"]">>

\* The setting a getSettingValue call resolved.
Resolved == lookup(config, last.path)

ResolvedGroup ==
    /\ last.fn = "getSettingValue"
    /\ Resolved.thrown = "none"
    /\ getType(Resolved.setting) = "TypeGroup"

Entry(child, value) == <<getName(child), " = ">> \o value

\* C2: a group of n >= 1 scalar children resolves to "{\n", the entries
\* "name = value" joined by ", \n", then "\n}", for every n >= 1.
C2_GroupBraced ==
    (ResolvedGroup /\ getLength(Resolved.setting) >= 1
        /\ AllOfType(Resolved.setting, {"TypeInt", "TypeBoolean", "TypeString"}))
    => last.ret = <<"{", "\n">>
                  \o Join([k \in 1..getLength(Resolved.setting) |->
                               Entry(Resolved.setting.kids[k],
                                     settingValueToString(Resolved.setting.kids[k]))],
                          <<",", " ", "\n">>)
                  \o <<"\n", "}">>

\* The group expansion with nested groups expanded by the same logic.
RECURSIVE ExpandGroup(_)
ExpandGroup(setting) ==
    LET n == getLength(setting)
        value(k) == IF getType(setting.kids[k]) = "TypeGroup"
                    THEN ExpandGroup(setting.kids[k])
                    ELSE settingValueToString(setting.kids[k])
        pieces == [k \in 1..n |-> GroupPiece(k - 1, n, getName(setting.kids[k]), value(k))]
    IN  Join(pieces, <<>>)

\* C3: a child that is itself a group contributes its own group expansion
\* to the output of getSettingValue, never the renderer's empty string.
C3_NestedGroupExpanded ==
    (ResolvedGroup /\ \E k \in 1..getLength(Resolved.setting) :
                          getType(Resolved.setting.kids[k]) = "TypeGroup")
    => last.ret = ExpandGroup(Resolved.setting)

FileStatus == readFile(fs, ConfigFilepath(last.station, last.run, last.directory))

NoResultAfterDiagnostic(out) ==
    \A i, j \in 1..Len(out) : (i < j /\ IsDiagnostic(out[i])) => IsDiagnostic(out[j])

\* C4 as stated: every failure of a readConfigFile call is terminal; after
\* a failure diagnostic no lookup and no result line follows, and no
\* exception escapes.
C4_EveryFailureTerminal ==
    last.fn = "readConfigFile"
    => /\ last.exc = "none"
       /\ FileStatus # "ok" => last.lookups = <<>>
       /\ NoResultAfterDiagnostic(last.out)

\* C4 amended: a file or parse failure ends the call after its one
\* diagnostic, with no lookup and no result line; a lookup failure or an
\* unknown alias emits one diagnostic, is not retried, and is followed by the
\* result line with an empty value; the call always returns normally.
C4_FailureHandling ==
    last.fn = "readConfigFile"
    => /\ last.exc = "none"
       /\ Len(last.lookups) <= 1
       /\ FileStatus # "ok"
            => /\ last.lookups = <<>>
               /\ Len(last.out) = 1
               /\ IsDiagnostic(last.out[1])
       /\ FileStatus = "ok"
            => \/ last.out = <<ResultLine(last.path, getCommonSettingValue(config, last.path).ret)>>
                  /\ getCommonSettingValue(config, last.path).out = <<>>
               \/ /\ Len(last.out) = 2
                  /\ IsDiagnostic(last.out[1])
                  /\ last.out[2] = ResultLine(last.path, <<>>)

C4_Witness ==
    /\ last.fn = "readConfigFile"
    /\ FileStatus = "ok"
    /\ Len(last.out) = 2
    /\ IsDiagnostic(last.out[1])
    /\ last.lookups = <<<<"radiant", ".", "missing">>>>

\* The path a getCommonSettingValue argument stands for: itself when it
\* has a '.', else the mapped path of the three aliases.
AliasKeys == {<<"rf0_enabled">>, <<"rf1_enabled">>, <<"scalers_use_pps">>}

resolve(a) ==
    IF HasDot(a) THEN a
    ELSE IF a = <<"rf0_enabled">> THEN <<"radiant", ".", "trigger", ".", "RF0", ".", "enabled">>
    ELSE IF a = <<"rf1_enabled">> THEN <<"radiant", ".", "trigger", ".", "RF1", ".", "enabled">>
    ELSE <<"radiant", ".", "scalers", ".", "use_pps">>

Resolvable(a) == HasDot(a) \/ a \in AliasKeys

\* The path a lookup call of the last step was about, if any.
LookupCall ==
    \/ last.fn = "getSettingValue"
    \/ last.fn = "getCommonSettingValue" /\ Resolvable(last.path)

LookedUp == IF last.fn = "getSettingValue" THEN last.path ELSE resolve(last.path)

\* C5: a path that does not resolve yields the empty string and one
\* diagnostic that includes the path, and no failure escapes, directly and
\* through getCommonSettingValue.
C5_LookupFailureRecovered ==
    (LookupCall /\ lookup(config, LookedUp).thrown # "none")
    => /\ last.ret = <<>>
       /\ last.exc = "none"
       /\ Len(last.out) = 1
       /\ IsDiagnostic(last.out[1])
       /\ Contains(last.out[1], LookedUp)

C5_Witness ==
    /\ last.fn = "getCommonSettingValue"
    /\ last.path = <<"radiant", ".", "missing">>
    /\ Len(last.out) = 1

\* C6: getCommonSettingValue(config, a) returns and prints what
\* getSettingValue(config, resolve(a)) does, for a dotted a and for the
\* three aliases.
C6_AliasTransparent ==
    (last.fn = "getCommonSettingValue" /\ Resolvable(last.path))
    => /\ last.ret = getSettingValue(config, resolve(last.path)).ret
       /\ last.out = getSettingValue(config, resolve(last.path)).out
       /\ last.exc = getSettingValue(config, resolve(last.path)).exc

C6_Witness ==
    /\ last.fn = "getCommonSettingValue"
    /\ last.path = <<"scalers_use_pps">>
    /\ last.ret = <<"1">>

\* C7: an alias with no '.' that is not in the table yields the empty
\* string and exactly one unknown-alias diagnostic naming it, and the
\* configuration is not looked at, whatever top-level settings it has.
C7_UnknownAlias ==
    (last.fn = "getCommonSettingValue" /\ ~HasDot(last.path) /\ last.path \notin AliasKeys)
    => /\ last.ret = <<>>
       /\ last.out = <<<<"Error: Unknown common setting alias: ">> \o last.path>>
       /\ last.lookups = <<>>
       /\ last.exc = "none"

C7_Witness ==
    /\ last.fn = "getCommonSettingValue"
    /\ last.path = <<"bogus">>
    /\ lookup(config, <<"bogus">>).thrown = "none"
    /\ Len(last.out) = 1

\* The field of a list element: decimal for an integer, empty for a kind
\* that is neither integer nor float.
Field(elem) == IF getType(elem) = "TypeInt" THEN to_string_int(elem.ival) ELSE <<>>

\* C8: a list of n >= 2 elements renders as "(" f0 "," ... "," fn-1 ")"
\* with an empty field for an unsupported element, so with n-1 commas.
C8_ListFields ==
    (Rendered("TypeList") /\ getLength(last.setting) >= 2)
    => /\ Count(last.ret, ",") = getLength(last.setting) - 1
       /\ last.ret[1] = "(" /\ last.ret[Len(last.ret)] = ")"
       /\ ~(\E k \in 1..getLength(last.setting) : getType(last.setting.kids[k]) = "TypeFloat")
            => last.ret = <<"(">>
                          \o Join([k \in 1..getLength(last.setting) |->
                                       Field(last.setting.kids[k])], <<",">>)
                          \o <<")">>

C8_Witness ==
    /\ Rendered("TypeList")
    /\ getLength(last.setting) = 3
    /\ getType(last.setting.kids[1]) = "TypeBoolean"
    /\ getType(last.setting.kids[2]) = "TypeGroup"
    /\ getType(last.setting.kids[3]) = "TypeInt"
    /\ last.ret = <<"(", ",", ",", "1", "2", ")">>

\* C9: an empty array renders as "[]".
C9_EmptyArray ==
    (Rendered("TypeArray") /\ getLength(last.setting) = 0) => last.ret = <<"[", "]">>

====
